---- MODULE Spec2Model ----
(***************************************************************************)
(* State-machine model of the PCL Navigator core: the Streamlit session    *)
(* handlers of app.py, the store functions of supabase_client.py, the      *)
(* crypto envelope of crypto_utils.py and the crystallizer of              *)
(* crystallizer.py.                                                        *)
(*                                                                         *)
(* Two browser sessions share one database.  A text is a sequence of       *)
(* characters; a character is Ch(c), or Js(v): the characters of one       *)
(* complete JSON document whose value is v (first character "{" or "[").   *)
(***************************************************************************)
EXTENDS Naturals, Sequences, FiniteSets, TLC

VARIABLES
    user_session,     \* st.session_state.user_session: the logged-in user or None
    encryption_key,   \* st.session_state.encryption_key
    messages,         \* st.session_state.messages: the buffer
    conversation_id,  \* st.session_state.conversation_id
    pc,               \* where each session's script run stands
    frame,            \* locals of a running finalize_summary call
    out,              \* the last step: its handler, st.error, st.toast, model call and response
    l5,               \* table of raw messages, in created_at order
    l4,               \* table of structured records, in created_at order; id = position
    l4_seen,          \* history: per l4 record, what its writer saw and reported
    next_uuid         \* uuid.uuid4(): the next unused conversation id

vars == <<user_session, encryption_key, messages, conversation_id, pc, frame,
          out, l5, l4, l4_seen, next_uuid>>

----------------------------------------------------------------------------
(* Bounds of the model *)

\* rows of the message table, and messages of a buffer
MaxL5 == 2
\* rows of the record table
MaxL4 == 2

Sessions == {1, 2}
\* the ids uuid.uuid4() hands out after the sessions' first ones
FreshUuids == {3}
Users == {"u1", "u2"}
None == "None"

----------------------------------------------------------------------------
(* Texts *)

Ch(c) == [ch |-> c]
Js(v) == [json |-> v]
Str(s) == [i \in 1..Len(s) |-> Ch(s[i])]

RECURSIVE lstrip(_, _)
lstrip(s, chars) ==
    IF s # <<>> /\ Head(s) \in chars THEN lstrip(Tail(s), chars) ELSE s

RECURSIVE rstrip(_, _)
rstrip(s, chars) ==
    IF s # <<>> /\ s[Len(s)] \in chars
    THEN rstrip(SubSeq(s, 1, Len(s) - 1), chars) ELSE s

Whitespace == {Ch(" "), Ch("\n"), Ch("\t")}
strip(s) == rstrip(lstrip(s, Whitespace), Whitespace)

\* s[:n]
Prefix(s, n) == SubSeq(s, 1, IF Len(s) < n THEN Len(s) ELSE n)

----------------------------------------------------------------------------
(* JSON *)

\* what json.loads raises, as a value no JSON value equals
JSONDecodeError == [raised |-> "JSONDecodeError"]
Dict(f) == [type |-> "dict", items |-> f]

json_dumps(obj) == <<Js(obj)>>

\* a parser that falls back to an empty object
json_loads_Lenient(s) ==
    LET t == strip(s)
    IN  IF Len(t) = 1 /\ DOMAIN t[1] = {"json"} THEN t[1].json
        ELSE Dict([k \in {} |-> <<>>])

json_loads(s) ==
    LET t == strip(s)
    IN  IF Len(t) = 1 /\ DOMAIN t[1] = {"json"} THEN t[1].json ELSE JSONDecodeError

----------------------------------------------------------------------------
(* Crypto envelope *)

\* what decrypt_message raises, as a value no text equals
InvalidToken == <<[raised |-> "InvalidToken"]>>
Password == ("u1" :> "pw1") @@ ("u2" :> "pw2")
NoKey == [kdf |-> None, salt |-> None]

derive_key(password, salt) == [kdf |-> password, salt |-> salt]

\* characters outside ASCII: the first one of the draft marker
NonAscii == {"U+4E0B"}
Utf8Len(c) == IF DOMAIN c = {"ch"} /\ c.ch \in NonAscii THEN 3 ELSE 1

\* the UTF-8 bytes of one character
Utf8(c) == [k \in 1..Utf8Len(c) |-> [byte |-> k, of |-> c]]

\* str.encode()
RECURSIVE encode(_)
encode(s) == IF s = <<>> THEN <<>> ELSE Utf8(Head(s)) \o encode(Tail(s))

\* what bytes.decode() raises, as a value no text equals
UnicodeDecodeError == <<[raised |-> "UnicodeDecodeError"]>>

\* bytes.decode()
RECURSIVE decode(_)
decode(b) ==
    IF b = <<>> THEN <<>>
    ELSE LET c == Head(b).of
             n == Utf8Len(c)
         IN  IF Len(b) >= n /\ SubSeq(b, 1, n) = Utf8(c)
             THEN LET rest == decode(SubSeq(b, n + 1, Len(b)))
                  IN  IF rest = UnicodeDecodeError THEN rest ELSE <<c>> \o rest
             ELSE UnicodeDecodeError

\* Fernet(key).encrypt: a token that carries the bytes, sealed under the key
encrypt_message(message, key) == [token |-> encode(message), key |-> key]

\* a decryption that does not verify the token against the key
decrypt_message_NoVerify(encrypted_message, key) ==
    decode(encrypted_message.token)

\* Fernet(key).decrypt: the bytes, when the token verifies under the key
decrypt_message(encrypted_message, key) ==
    IF encrypted_message.key = key THEN decode(encrypted_message.token) ELSE InvalidToken

----------------------------------------------------------------------------
(* Inputs *)

\* what the user types into st.chat_input
Prompts == {Str(<<"h", "U+4E0B">>)}

\* response.text of the chat model
ChatResponses == {Str(<<"o", "k">>)}

why_text == Str(<<"W">>)
what_text == Str(<<"T">>)
how_text == Str(<<"H">>)
FullObj ==
    Dict([why_summary |-> why_text, what_summary |-> what_text, how_summary |-> how_text])
PartialObj == Dict([why_summary |-> why_text, what_summary |-> what_text])

\* the backquote character, spelled out
Backquote == "bq"
Fence == Str(<<Backquote, Backquote, Backquote>>)
RespBare == <<Js(FullObj)>>
RespFenced == Fence \o Str(<<"j", "s", "o", "n", "\n">>) \o <<Js(FullObj)>> \o Str(<<"\n">>) \o Fence
RespFencedPlain == Fence \o Str(<<"\n">>) \o <<Js(FullObj)>> \o Str(<<"\n">>) \o Fence
RespPartial == <<Js(PartialObj)>>
RespProse == Str(<<"s", "o", " ", "b", "e">>)

\* response.text of the summarization model
SummaryResponses == {RespBare, RespFenced, RespFencedPlain, RespPartial, RespProse}

----------------------------------------------------------------------------
(* st.error / st.toast of one script run *)

Out(handler) == [handler |-> handler, errors |-> {}, toasts |-> {}, llm_calls |-> 0,
                 response |-> <<>>]
NoOut == Out("")
\* the model was called; response = <<>> when the call raised
llm(o, response_text) == [o EXCEPT !.llm_calls = 1, !.response = response_text]
st_error(o, e) == [o EXCEPT !.errors = @ \cup {e}]
st_toast(o, t) == [o EXCEPT !.toasts = @ \cup {t}]
\* the st.error of handle_db_errors
DbError ==
    [load_conversation_history |-> "Database operation failed in load_conversation_history",
     load_messages_for_conversation |-> "Database operation failed in load_messages_for_conversation",
     create_interim_summary |-> "Database operation failed in create_interim_summary",
     get_latest_l4_record |-> "Database operation failed in get_latest_l4_record",
     insert_finalized_summary |-> "Database operation failed in insert_finalized_summary"]

----------------------------------------------------------------------------
(* Store functions.  db_ok = FALSE: the Supabase call raises.  app.py    *)
(* keeps its own copies of save_message and load_messages_for_conversation *)
(* on the same rows; they differ in the text of their st.error only.       *)

NoId == 0

\* rows of a table with the given conversation_id, in created_at order
RECURSIVE SelectConv(_, _)
SelectConv(table, cid) ==
    IF table = <<>> THEN <<>>
    ELSE IF Head(table).conversation_id = cid
         THEN <<Head(table)>> \o SelectConv(Tail(table), cid)
         ELSE SelectConv(Tail(table), cid)

CannotDecrypt == Str(<<"[", "C", "D", "M", "]">>)

\* a load that gives up at the first message it cannot decrypt
load_messages_for_conversation_Abort(table, key, cid, db_ok) ==
    LET rows == SelectConv(table, cid)
    IN  IF ~db_ok \/ \E i \in 1..Len(rows) : decrypt_message(rows[i].content, key) = InvalidToken
        THEN <<>>
        ELSE [i \in 1..Len(rows) |->
                [role |-> rows[i].role, content |-> decrypt_message(rows[i].content, key)]]

\* the message list that load_messages_for_conversation returns
load_messages_for_conversation(table, key, cid, db_ok) ==
    IF ~db_ok THEN <<>>
    ELSE LET rows == SelectConv(table, cid)
         IN  [i \in 1..Len(rows) |->
                LET d == decrypt_message(rows[i].content, key)
                IN  [role |-> rows[i].role,
                     content |-> IF d = InvalidToken THEN CannotDecrypt ELSE d]]

\* a row whose content is sealed under a key that is not the session's
MessageRow_SharedKey(cid, role, content, uid, key) ==
    [conversation_id |-> cid, role |-> role,
     content |-> encrypt_message(content, NoKey), user_id |-> uid]

\* the row that save_message inserts
MessageRow(cid, role, content, uid, key) ==
    [conversation_id |-> cid, role |-> role,
     content |-> encrypt_message(content, key), user_id |-> uid]

\* an insert that reaches the table although the call raises
save_message_WritesAnyway(table, key, cid, role, content, uid, db_ok) ==
    Append(table, MessageRow(cid, role, content, uid, key))

save_message(table, key, cid, role, content, uid, db_ok) ==
    IF db_ok THEN Append(table, MessageRow(cid, role, content, uid, key)) ELSE table

DraftMarker == Str(<<"[", "U+4E0B", "]", " ">>)
Ellipsis == Str(<<".", ".", ".">>)
WhyPrefixLen == 50
WhatPrefixLen == 100

InterimObj(first_message_content) ==
    Dict([why_summary |-> DraftMarker \o strip(Prefix(first_message_content, WhyPrefixLen)) \o Ellipsis,
          what_summary |-> strip(Prefix(first_message_content, WhatPrefixLen)),
          how_summary |-> <<>>])

\* the row that create_interim_summary inserts; supersedes_id is left to the column default
InterimRow(table, key, cid, uid, first_message_content) ==
    [id |-> Len(table) + 1, user_id |-> uid, conversation_id |-> cid,
     summary_data |-> encrypt_message(json_dumps(InterimObj(first_message_content)), key),
     status |-> "interim", supersedes_id |-> NoId]

create_interim_summary(table, key, cid, uid, first_message_content, db_ok) ==
    IF db_ok THEN Append(table, InterimRow(table, key, cid, uid, first_message_content))
    ELSE table

\* the decorator's default (None, None); raised = it caught an exception
NoRecord(raised) == [id |-> NoId, text |-> <<>>, raised |-> raised]

\* (record_id, decrypted_summary) of the newest row of the conversation
get_latest_l4_record(table, key, cid, db_ok) ==
    LET rows == SelectConv(table, cid)
    IN  IF ~db_ok THEN NoRecord(TRUE)
        ELSE IF rows = <<>> THEN NoRecord(FALSE)
        ELSE LET d == decrypt_message(rows[Len(rows)].summary_data, key)
             IN  IF d = InvalidToken THEN NoRecord(TRUE)
                 ELSE [id |-> rows[Len(rows)].id, text |-> d, raised |-> FALSE]

\* history: position of the newest record of the conversation, NoId when none
Newest(table, cid) ==
    LET ids == {j \in 1..Len(table) : table[j].conversation_id = cid}
    IN  IF ids = {} THEN NoId ELSE CHOOSE j \in ids : \A k \in ids : k <= j

\* a row that drops the link to the previous record
FinalizedRow_NoLink(table, key, cid, uid, summary_obj, supersedes_id) ==
    [id |-> Len(table) + 1, user_id |-> uid, conversation_id |-> cid,
     summary_data |-> encrypt_message(json_dumps(summary_obj), key),
     status |-> "finalized", supersedes_id |-> NoId]

FinalizedRow(table, key, cid, uid, summary_obj, supersedes_id) ==
    [id |-> Len(table) + 1, user_id |-> uid, conversation_id |-> cid,
     summary_data |-> encrypt_message(json_dumps(summary_obj), key),
     status |-> "finalized", supersedes_id |-> supersedes_id]

\* an upsert: the new summary overwrites the record it supersedes
insert_finalized_summary_Upsert(table, key, cid, uid, summary_obj, supersedes_id, db_ok) ==
    IF ~db_ok THEN table
    ELSE IF supersedes_id = NoId
    THEN Append(table, FinalizedRow(table, key, cid, uid, summary_obj, supersedes_id))
    ELSE [table EXCEPT ![supersedes_id] =
            [FinalizedRow(table, key, cid, uid, summary_obj, supersedes_id)
                EXCEPT !.id = supersedes_id]]

insert_finalized_summary(table, key, cid, uid, summary_obj, supersedes_id, db_ok) ==
    IF db_ok THEN Append(table, FinalizedRow(table, key, cid, uid, summary_obj, supersedes_id))
    ELSE table

CannotReadSummary == Str(<<"[", "C", "R", "S", "]">>)
CannotDecryptSummary == Str(<<"[", "C", "D", "S", "]">>)

\* the oldest of the user's rows of each conversation
LatestRows_Oldest(table, uid) ==
    {j \in 1..Len(table) :
        /\ table[j].user_id = uid
        /\ \A k \in 1..(j - 1) :
              ~(table[k].user_id = uid /\ table[k].conversation_id = table[j].conversation_id)}

\* rows of the user that are the newest of the user's rows of their conversation
LatestRows(table, uid) ==
    {j \in 1..Len(table) :
        /\ table[j].user_id = uid
        /\ \A k \in (j + 1)..Len(table) :
              ~(table[k].user_id = uid /\ table[k].conversation_id = table[j].conversation_id)}

\* the preview of one row: its why_summary, or a placeholder
Preview(row, key) ==
    LET d == decrypt_message(row.summary_data, key)
        obj == json_loads(d)
    IN  IF d = InvalidToken \/ obj = JSONDecodeError \/ obj.type # "dict"
        THEN CannotDecryptSummary
        ELSE IF "why_summary" \in DOMAIN obj.items THEN obj.items.why_summary
        ELSE CannotReadSummary

\* the entries for the first n rows of the table, oldest latest-row first
RECURSIVE HistoryList(_, _, _, _)
HistoryList(table, key, uid, n) ==
    IF n = 0 THEN <<>>
    ELSE HistoryList(table, key, uid, n - 1)
         \o (IF n \in LatestRows(table, uid)
             THEN <<[conversation_id |-> table[n].conversation_id,
                     preview |-> Preview(table[n], key)]>>
             ELSE <<>>)

load_conversation_history(table, key, uid, db_ok) ==
    IF db_ok THEN HistoryList(table, key, uid, Len(table)) ELSE <<>>

----------------------------------------------------------------------------
(* Crystallizer: the parse of the model response *)

\* str.lstrip("```json") strips any leading run of these characters
LstripChars == {Ch(Backquote), Ch("j"), Ch("s"), Ch("o"), Ch("n")}
\* str.rstrip("```")
RstripChars == {Ch(Backquote)}

\* response.text.strip().lstrip("```json").rstrip("```")
summary_text(response_text) == rstrip(lstrip(strip(response_text), LstripChars), RstripChars)

\* json.loads(summary_text)
summary_obj(response_text) == json_loads(summary_text(response_text))

----------------------------------------------------------------------------
(* State *)

NoFrame == [previous_record_id |-> NoId, previous_summary_text |-> <<>>,
            tip |-> NoId, errors |-> {}]

Init ==
    /\ user_session = [s \in Sessions |-> None]
    /\ encryption_key = [s \in Sessions |-> NoKey]
    /\ messages = [s \in Sessions |-> <<>>]
    /\ conversation_id = [s \in Sessions |-> s]
    /\ pc = [s \in Sessions |-> "idle"]
    /\ frame = [s \in Sessions |-> NoFrame]
    /\ out = NoOut
    /\ l5 = <<>>
    /\ l4 = <<>>
    /\ l4_seen = <<>>
    /\ next_uuid = Cardinality(Sessions) + 1

LoggedIn(s) == user_session[s] # None /\ encryption_key[s] # NoKey

\* sessions whose running handler still has an insert to make
Pending(states) == Cardinality({s \in Sessions : pc[s] \in states})

ErrorIf(failed, o, e) == IF failed THEN st_error(o, e) ELSE o

----------------------------------------------------------------------------
(* app.py: authentication *)

Login(s, u) ==
    /\ pc[s] = "idle"
    /\ ~LoggedIn(s)
    /\ \E auth_ok \in BOOLEAN :
         /\ user_session' = [user_session EXCEPT ![s] = IF auth_ok THEN u ELSE @]
         /\ encryption_key' = [encryption_key EXCEPT ![s] =
                IF auth_ok THEN derive_key(Password[u], u) ELSE @]
         /\ out' = ErrorIf(~auth_ok, Out("Login"), "Login failed")
    /\ UNCHANGED <<messages, conversation_id, pc, frame, l5, l4, l4_seen, next_uuid>>

Logout(s) ==
    /\ pc[s] = "idle"
    /\ LoggedIn(s)
    /\ user_session' = [user_session EXCEPT ![s] = None]
    /\ encryption_key' = [encryption_key EXCEPT ![s] = NoKey]
    /\ messages' = [messages EXCEPT ![s] = <<>>]
    /\ out' = Out("Logout")
    /\ UNCHANGED <<conversation_id, pc, frame, l5, l4, l4_seen, next_uuid>>

----------------------------------------------------------------------------
(* app.py: sidebar *)

NewChat(s) ==
    /\ pc[s] = "idle"
    /\ LoggedIn(s)
    /\ next_uuid \in FreshUuids
    /\ messages' = [messages EXCEPT ![s] = <<>>]
    /\ conversation_id' = [conversation_id EXCEPT ![s] = next_uuid]
    /\ next_uuid' = next_uuid + 1
    /\ out' = Out("New Chat")
    /\ UNCHANGED <<user_session, encryption_key, pc, frame, l5, l4, l4_seen>>

\* conversation ids that load_conversations lists for the user
load_conversations(table, uid) ==
    {table[i].conversation_id : i \in {j \in 1..Len(table) : table[j].user_id = uid}}

SelectConversation(s) ==
    /\ pc[s] = "idle"
    /\ LoggedIn(s)
    /\ \E cid \in load_conversations(l5, user_session[s]), db_ok \in BOOLEAN :
         /\ messages' = [messages EXCEPT ![s] =
                load_messages_for_conversation(l5, encryption_key[s], cid, db_ok)]
         /\ conversation_id' = [conversation_id EXCEPT ![s] = cid]
         \* the st.error of a failed load; the st.rerun() that follows clears the page
         /\ out' = ErrorIf(~db_ok, Out("select"), "Failed to load/decrypt messages")
    /\ UNCHANGED <<user_session, encryption_key, pc, frame, l5, l4, l4_seen, next_uuid>>

----------------------------------------------------------------------------
(* app.py: chat input *)

post_user_turn(s) ==
    /\ pc[s] = "idle"
    /\ LoggedIn(s)
    /\ Len(messages[s]) < MaxL5
    /\ Len(l5) < MaxL5
    /\ \E final_prompt \in Prompts, db_ok \in BOOLEAN :
         /\ messages' = [messages EXCEPT ![s] =
                Append(@, [role |-> "user", content |-> final_prompt])]
         /\ l5' = save_message(l5, encryption_key[s], conversation_id[s], "user",
                               final_prompt, user_session[s], db_ok)
         /\ out' = ErrorIf(~db_ok, Out("chat_input"), "Failed to save message")
    /\ pc' = [pc EXCEPT ![s] = "gemini"]
    /\ UNCHANGED <<user_session, encryption_key, conversation_id, frame, l4, l4_seen, next_uuid>>

\* a turn that also crystallizes the conversation
post_assistant_turn_Crystallize(s) ==
    /\ pc[s] = "gemini"
    /\ Len(messages[s]) < MaxL5
    /\ Len(l5) < MaxL5
    /\ \E response_text \in ChatResponses, db_ok \in BOOLEAN :
         /\ messages' = [messages EXCEPT ![s] =
                Append(@, [role |-> "assistant", content |-> response_text])]
         /\ l5' = save_message(l5, encryption_key[s], conversation_id[s], "assistant",
                               response_text, user_session[s], db_ok)
         /\ l4' = insert_finalized_summary(l4, encryption_key[s], conversation_id[s],
                        user_session[s], FullObj,
                        get_latest_l4_record(l4, encryption_key[s], conversation_id[s], TRUE).id,
                        TRUE)
         /\ out' = ErrorIf(~db_ok, llm(Out("chat_input"), response_text), "Failed to save message")
    /\ pc' = [pc EXCEPT ![s] = "idle"]
    /\ UNCHANGED <<user_session, encryption_key, conversation_id, frame, l4_seen, next_uuid>>

post_assistant_turn(s) ==
    /\ pc[s] = "gemini"
    /\ Len(messages[s]) < MaxL5
    /\ Len(l5) < MaxL5
    /\ \E response_text \in ChatResponses, db_ok \in BOOLEAN :
         /\ messages' = [messages EXCEPT ![s] =
                Append(@, [role |-> "assistant", content |-> response_text])]
         /\ l5' = save_message(l5, encryption_key[s], conversation_id[s], "assistant",
                               response_text, user_session[s], db_ok)
         /\ out' = ErrorIf(~db_ok, llm(Out("chat_input"), response_text), "Failed to save message")
    /\ pc' = [pc EXCEPT ![s] = "idle"]
    /\ UNCHANGED <<user_session, encryption_key, conversation_id, frame, l4, l4_seen, next_uuid>>

\* a handler that puts the error into the conversation as an assistant message
gemini_error_AsMessage(s) ==
    /\ pc[s] = "gemini"
    /\ Len(messages[s]) < MaxL5
    /\ messages' = [messages EXCEPT ![s] =
            Append(@, [role |-> "assistant", content |-> Str(<<"e", "r", "r">>)])]
    /\ out' = st_error(llm(Out("chat_input"), <<>>), "An error occurred with the Gemini API")
    /\ pc' = [pc EXCEPT ![s] = "idle"]
    /\ UNCHANGED <<user_session, encryption_key, conversation_id, frame,
                   l5, l4, l4_seen, next_uuid>>

gemini_error(s) ==
    /\ pc[s] = "gemini"
    /\ out' = st_error(llm(Out("chat_input"), <<>>), "An error occurred with the Gemini API")
    /\ pc' = [pc EXCEPT ![s] = "idle"]
    /\ UNCHANGED <<user_session, encryption_key, messages, conversation_id, frame,
                   l5, l4, l4_seen, next_uuid>>

----------------------------------------------------------------------------
(* supabase_client.py: the interim record.  app.py has no call of it; it   *)
(* is called for the session's conversation with a user text.              *)

insert_interim(s) ==
    /\ pc[s] = "idle"
    /\ LoggedIn(s)
    /\ Len(l4) + Pending({"fin_loaded", "fin_latest"}) < MaxL4
    /\ \E first_message_content \in Prompts, db_ok \in BOOLEAN :
         /\ l4' = create_interim_summary(l4, encryption_key[s], conversation_id[s],
                                         user_session[s], first_message_content, db_ok)
         /\ l4_seen' = IF db_ok THEN Append(l4_seen, [tip |-> NoId, clean |-> TRUE])
                       ELSE l4_seen
         /\ out' = IF db_ok THEN st_toast(Out("create_interim_summary"), "Draft saved.")
                   ELSE st_error(Out("create_interim_summary"), DbError.create_interim_summary)
    /\ UNCHANGED <<user_session, encryption_key, messages, conversation_id, pc, frame,
                   l5, next_uuid>>

\* supabase_client.py: the history list, called with the session's key and
\* user; out.response is the list it returns
list_history(s) ==
    /\ pc[s] = "idle"
    /\ LoggedIn(s)
    /\ \E db_ok \in BOOLEAN :
         out' = [ErrorIf(~db_ok, Out("load_conversation_history"),
                         DbError.load_conversation_history)
                 EXCEPT !.response = load_conversation_history(l4, encryption_key[s],
                                                              user_session[s], db_ok)]
    /\ UNCHANGED <<user_session, encryption_key, messages, conversation_id, pc, frame,
                   l5, l4, l4_seen, next_uuid>>

----------------------------------------------------------------------------
(* crystallizer.py: finalize_summary for the session's conversation, in    *)
(* the three store and model calls at which other sessions interleave.     *)

\* a load that goes on without the early return
finalize_load_NoReturn(s) ==
    /\ pc[s] = "idle"
    /\ LoggedIn(s)
    /\ Len(l4) + Pending({"fin_loaded", "fin_latest"}) < MaxL4
    /\ \E db_ok \in BOOLEAN :
         /\ out' = ErrorIf(~db_ok, Out("finalize_summary"),
                           DbError.load_messages_for_conversation)
         /\ pc' = [pc EXCEPT ![s] = "fin_loaded"]
    /\ UNCHANGED <<user_session, encryption_key, messages, conversation_id, frame,
                   l5, l4, l4_seen, next_uuid>>

\* line 15-16: load the messages; nothing to do when there are none
finalize_load(s) ==
    /\ pc[s] = "idle"
    /\ LoggedIn(s)
    /\ Len(l4) + Pending({"fin_loaded", "fin_latest"}) < MaxL4
    /\ \E db_ok \in BOOLEAN :
         LET msgs == load_messages_for_conversation(l5, encryption_key[s],
                                                    conversation_id[s], db_ok)
         IN  /\ out' = ErrorIf(~db_ok, Out("finalize_summary"),
                               DbError.load_messages_for_conversation)
             /\ pc' = [pc EXCEPT ![s] = IF msgs = <<>> THEN "idle" ELSE "fin_loaded"]
    /\ UNCHANGED <<user_session, encryption_key, messages, conversation_id, frame,
                   l5, l4, l4_seen, next_uuid>>

\* line 19: the previous record
finalize_latest(s) ==
    /\ pc[s] = "fin_loaded"
    /\ \E db_ok \in BOOLEAN :
         LET r == get_latest_l4_record(l4, encryption_key[s], conversation_id[s], db_ok)
             o == ErrorIf(r.raised, Out("finalize_summary"), DbError.get_latest_l4_record)
         IN  /\ frame' = [frame EXCEPT ![s] =
                    [previous_record_id |-> r.id, previous_summary_text |-> r.text,
                     tip |-> Newest(l4, conversation_id[s]), errors |-> o.errors]]
             /\ out' = o
    /\ pc' = [pc EXCEPT ![s] = "fin_latest"]
    /\ UNCHANGED <<user_session, encryption_key, messages, conversation_id,
                   l5, l4, l4_seen, next_uuid>>

\* line 22-35: prompt, model call, parse, insert
finalize_insert(s) ==
    /\ pc[s] = "fin_latest"
    /\ \E response_text \in SummaryResponses, generate_ok \in BOOLEAN, db_ok \in BOOLEAN :
         LET obj == summary_obj(response_text)
             called == llm(Out("finalize_summary"), IF generate_ok THEN response_text ELSE <<>>)
         IN  IF ~generate_ok \/ obj = JSONDecodeError
             THEN /\ out' = st_error(called, "Failed to finalize summary")
                  /\ UNCHANGED <<l4, l4_seen>>
             ELSE /\ l4' = insert_finalized_summary(l4, encryption_key[s], conversation_id[s],
                                user_session[s], obj, frame[s].previous_record_id, db_ok)
                  /\ l4_seen' = IF db_ok
                                THEN Append(l4_seen, [tip |-> frame[s].tip,
                                                      clean |-> frame[s].errors = {}])
                                ELSE l4_seen
                  /\ out' = IF db_ok THEN st_toast(called, "Knowledge crystallized!")
                            ELSE st_error(called, DbError.insert_finalized_summary)
    /\ pc' = [pc EXCEPT ![s] = "idle"]
    /\ frame' = [frame EXCEPT ![s] = NoFrame]
    /\ UNCHANGED <<user_session, encryption_key, messages, conversation_id, l5, next_uuid>>

----------------------------------------------------------------------------
(* Specifications *)

\* One browser session of one user: the handlers of app.py that write, and
\* the store and crystallizer functions called for the session's conversation.
Next ==
    \E s \in {1} :
        \/ Login(s, "u1")
        \/ Logout(s)
        \/ NewChat(s)
        \/ post_user_turn(s)
        \/ post_assistant_turn(s)
        \/ gemini_error(s)
        \/ insert_interim(s)
        \/ finalize_load(s)
        \/ finalize_latest(s)
        \/ finalize_insert(s)

Spec == Init /\ [][Next]_vars

\* One browser session that either user logs in to, on one conversation: a
\* record written under one user's key is looked up under the other's.
NextKeys ==
    \E s \in {1} :
        \/ \E u \in Users : Login(s, u)
        \/ Logout(s)
        \/ post_user_turn(s)
        \/ post_assistant_turn(s)
        \/ gemini_error(s)
        \/ insert_interim(s)
        \/ finalize_load(s)
        \/ finalize_latest(s)
        \/ finalize_insert(s)

SpecKeys == Init /\ [][NextKeys]_vars

\* Records are written and the history list is read: session 1 is the first
\* user's, who starts conversations and crystallizes them; session 2 is used
\* by either user in turn, on one conversation.
NextHistory ==
    \/ \E s \in {1} :
        \/ Login(s, "u1")
        \/ NewChat(s)
        \/ post_user_turn(s)
        \/ gemini_error(s)
        \/ finalize_load(s)
        \/ finalize_latest(s)
        \/ finalize_insert(s)
        \/ list_history(s)
    \/ \E u \in Users : Login(2, u)
    \/ Logout(2)
    \/ \E s \in Sessions : insert_interim(s)

SpecHistory == Init /\ [][NextHistory]_vars

\* app.py as it is written: one browser session, either user.
NextApp ==
    \E s \in {1} :
        \/ \E u \in Users : Login(s, u)
        \/ Logout(s)
        \/ NewChat(s)
        \/ SelectConversation(s)
        \/ post_user_turn(s)
        \/ post_assistant_turn(s)
        \/ gemini_error(s)

SpecApp == Init /\ [][NextApp]_vars

\* the step reported no failure of a storage, login or model call
NoFailure == out'.errors = {}

\* The runs of app.py in which no call fails: two browser sessions, each
\* used by a user of its own.
NextQuiet ==
    \/ Login(1, "u1") /\ NoFailure
    \/ Login(2, "u2") /\ NoFailure
    \/ \E s \in Sessions :
        \/ Logout(s)
        \/ NewChat(s)
        \/ SelectConversation(s) /\ NoFailure
        \/ post_user_turn(s) /\ NoFailure
        \/ post_assistant_turn(s) /\ NoFailure

SpecQuiet == Init /\ [][NextQuiet]_vars

\* Two browser sessions of one user (two devices) on the shared tables:
\* session 1 writes the conversation (user turns whose model call fails, the
\* interim record), session 2 opens it, and both crystallize it.
NextTwo ==
    \/ \E s \in Sessions :
        \/ Login(s, "u1")
        \/ finalize_load(s)
        \/ finalize_latest(s)
        \/ finalize_insert(s)
    \/ post_user_turn(1)
    \/ gemini_error(1)
    \/ insert_interim(1)
    \/ SelectConversation(2)

SpecTwo == Init /\ [][NextTwo]_vars

\* app.py as it is written, in two browser sessions on the shared tables:
\* session 1 is used by either user in turn, session 2 by the first user.
NextChat ==
    \/ \E s \in Sessions :
        \/ SelectConversation(s)
        \/ post_user_turn(s)
        \/ post_assistant_turn(s)
        \/ gemini_error(s)
    \/ \E u \in Users : Login(1, u)
    \/ Login(2, "u1")
    \/ Logout(1)
    \/ NewChat(1)

SpecChat == Init /\ [][NextChat]_vars

\* app.py read from a second browser session: session 1 is used by either
\* user in turn and writes the messages, session 2 is u1's and opens the
\* conversations listed for u1.
NextLoad ==
    \/ \E u \in Users : Login(1, u)
    \/ Logout(1)
    \/ NewChat(1)
    \/ post_user_turn(1)
    \/ post_assistant_turn(1)
    \/ gemini_error(1)
    \/ Login(2, "u1")
    \/ SelectConversation(2)

SpecLoad == Init /\ [][NextLoad]_vars

----------------------------------------------------------------------------
(* Claims *)

Finalized(j) == l4[j].status = "finalized"
Fields == {"why_summary", "what_summary", "how_summary"}

\* the finalized record j was written by a run that reported no error
CleanRun(j) == Finalized(j) /\ l4_seen[j].clean

\* record j was written by a run that found record i as the latest of the conversation
RanAfter(i, j) == l4_seen[j].tip = i /\ i # NoId

\* C1: when finalize_summary runs twice in a row on a conversation and both
\* runs succeed, both write a finalized record and the second record's
\* supersedes_id is the id of the first.
C1_ChainMonotonicity ==
    \A i, j \in 1..Len(l4) :
        (CleanRun(i) /\ CleanRun(j) /\ RanAfter(i, j))
        => /\ i < j
           /\ l4[j].conversation_id = l4[i].conversation_id
           /\ l4[j].supersedes_id = l4[i].id

C1_Witness ==
    \E i, j \in 1..Len(l4) : CleanRun(i) /\ CleanRun(j) /\ RanAfter(i, j)

\* C2: every finalized record's supersedes_id is the id of the most recent
\* record the conversation had when the crystallization read the store, and
\* is unset only if the conversation had none.
C2_SupersedesLatest ==
    \A j \in 1..Len(l4) : Finalized(j) => l4[j].supersedes_id = l4_seen[j].tip

\* a response with no structured content in it
IsProse(text) == text # <<>> /\ \A k \in 1..Len(text) : DOMAIN text[k] = {"ch"}

\* the last step was finalize_summary's model call, answered with prose
ProseAnswered(o) ==
    o.handler = "finalize_summary" /\ o.llm_calls = 1 /\ IsProse(o.response)

Keys == {derive_key(Password[u], u) : u \in Users}

\* C3: when the summarization model answers with prose, finalize_summary
\* writes no record, get_latest returns the same id and text as before for
\* every conversation, and the failure is shown with st.error while the
\* session goes on with its state intact.
C3_ParseFailureWritesNothing ==
    [][ProseAnswered(out')
        => /\ l4' = l4
           /\ \A cid \in 1..next_uuid, key \in Keys :
                get_latest_l4_record(l4', key, cid, TRUE)
                    = get_latest_l4_record(l4, key, cid, TRUE)
           /\ "Failed to finalize summary" \in out'.errors
           /\ \A s \in Sessions : pc'[s] \in {pc[s], "idle"}
           /\ UNCHANGED <<user_session, encryption_key, messages, conversation_id, l5>>]_vars

C3_Witness == ProseAnswered(out) /\ l4 # <<>> /\ Newest(l4, conversation_id[1]) # NoId

\* C4: every finalized record holds an object with exactly the fields
\* why_summary, what_summary and how_summary.
C4_ExactFields ==
    \A j \in 1..Len(l4) :
        Finalized(j) =>
            LET obj == json_loads(decrypt_message(l4[j].summary_data, l4[j].summary_data.key))
            IN  obj # JSONDecodeError /\ obj.type = "dict" /\ DOMAIN obj.items = Fields

\* C5: finalize_summary on a conversation with no stored messages returns at
\* once: no record is written, the model is not called, and nothing is
\* reported (but a failure of the load itself, by the store's decorator).
C5_EmptyConversationNoOp ==
    [][\A s \in Sessions :
         (finalize_load(s) /\ SelectConv(l5, conversation_id[s]) = <<>>)
         => /\ l4' = l4
            /\ l5' = l5
            /\ pc'[s] = "idle"
            /\ out'.llm_calls = 0
            /\ out'.errors \subseteq {DbError.load_messages_for_conversation}]_vars

C5_Witness ==
    /\ out = Out("finalize_summary")
    /\ pc[1] = "idle"
    /\ SelectConv(l5, conversation_id[1]) = <<>>
    /\ l5 # <<>>
    /\ l4 # <<>>

\* C6: whenever a session with buffered messages changes its conversation_id
\* (New Chat, or the selection of another conversation), finalize_summary
\* has just completed, or been reported as failed, in that session.
C6_PreFlushOnAbandon ==
    [][\A s \in Sessions :
         (conversation_id'[s] # conversation_id[s] /\ messages[s] # <<>>)
         => out.handler = "finalize_summary" /\ out.llm_calls = 1]_vars

UserTurn(content) == [role |-> "user", content |-> content]

\* the why_summary of the interim record of a first message
DraftTitle(content) == DraftMarker \o strip(Prefix(content, WhyPrefixLen)) \o Ellipsis

\* the step appends one interim record for the conversation, titled after content
InterimWritten(cid, content) ==
    /\ Len(l4') = Len(l4) + 1
    /\ SubSeq(l4', 1, Len(l4)) = l4
    /\ LET row == l4'[Len(l4')]
           text == decrypt_message(row.summary_data, row.summary_data.key)
       IN  /\ row.status = "interim"
           /\ row.conversation_id = cid
           /\ json_loads(text).items.why_summary = DraftTitle(content)

\* C7: a user turn appends the turn to the buffer and (unless the insert
\* fails) to the message table, and exactly when the buffer was empty it
\* also inserts one interim record whose why_summary is the draft marker
\* followed by the first 50 characters of the content.
C7_FirstTurnWritesInterim ==
    [][\A s \in Sessions :
         post_user_turn(s) =>
           LET content == messages'[s][Len(messages'[s])].content
           IN  /\ messages'[s] = Append(messages[s], UserTurn(content))
               /\ out'.errors = {} =>
                    l5' = Append(l5, MessageRow(conversation_id[s], "user", content,
                                                user_session[s], encryption_key[s]))
               /\ IF messages[s] = <<>>
                  THEN InterimWritten(conversation_id[s], content)
                  ELSE l4' = l4]_vars

IsPrefix(t, u) == Len(t) <= Len(u) /\ SubSeq(u, 1, Len(t)) = t

\* C8: no step updates or deletes a row of either table: every row that was
\* ever written is still there, in place and unchanged, whether the step
\* succeeded or failed.
C8_AppendOnly ==
    [][IsPrefix(l5, l5') /\ IsPrefix(l4, l4')]_vars

C8_Witness ==
    /\ Len(l5) >= 2
    /\ Len(l4) >= 2
    /\ out.errors # {}

Interims(cid) == {j \in 1..Len(l4) : l4[j].conversation_id = cid /\ l4[j].status = "interim"}
HasUserTurn(cid) ==
    \E k \in 1..Len(l5) : l5[k].conversation_id = cid /\ l5[k].role = "user"

Records(cid) == {j \in 1..Len(l4) : l4[j].conversation_id = cid}

\* the record of the same conversation created last before record j
Predecessor(j) ==
    LET before == {i \in Records(l4[j].conversation_id) : i < j}
    IN  IF before = {} THEN NoId ELSE CHOOSE i \in before : \A k \in before : k <= i

\* a set supersedes_id names an earlier record of the same conversation
RefsValid ==
    \A j \in 1..Len(l4) :
        (Finalized(j) /\ l4[j].supersedes_id # NoId)
        => /\ l4[j].supersedes_id \in 1..(j - 1)
           /\ l4[l4[j].supersedes_id].id = l4[j].supersedes_id
           /\ l4[l4[j].supersedes_id].conversation_id = l4[j].conversation_id

\* every finalized record of the conversation supersedes the record before it
Linear(cid) == \A j \in Records(cid) : Finalized(j) => l4[j].supersedes_id = Predecessor(j)

\* two records of the conversation carry the same supersedes_id, set or unset
TwoTips(cid) ==
    \E i, j \in Records(cid) : i # j /\ l4[i].supersedes_id = l4[j].supersedes_id

RowsOf(cid) == {j \in 1..Len(l5) : l5[j].conversation_id = cid}

\* what a load under the key shows of row j: its role, and its text or the marker
Shown(j, key) ==
    [role |-> l5[j].role,
     content |-> IF l5[j].content.key = key THEN decode(l5[j].content.token)
                 ELSE CannotDecrypt]

\* C11: for every conversation and every key, load_messages_for_conversation
\* returns one entry per stored row of the conversation, in the rows'
\* created_at order, each with the row's role and with its text, or the
\* 'cannot decrypt' marker when the row was written under another key.
C11_LoadAllInOrder ==
    \A cid \in 1..next_uuid, key \in Keys :
        LET loaded == load_messages_for_conversation(l5, key, cid, TRUE)
        IN  /\ Len(loaded) = Cardinality(RowsOf(cid))
            /\ \A j \in RowsOf(cid) :
                 loaded[Cardinality({i \in RowsOf(cid) : i <= j})] = Shown(j, key)

\* a session opened a conversation and got one readable and one unreadable message
C11_Witness ==
    /\ out.handler = "select"
    /\ \E s \in Sessions :
         /\ messages[s] = load_messages_for_conversation(l5, encryption_key[s],
                                                         conversation_id[s], TRUE)
         /\ \E i, j \in 1..Len(messages[s]) :
              /\ messages[s][i].content = CannotDecrypt
              /\ messages[s][j].content # CannotDecrypt
    /\ \E j \in 1..Len(l5) : l5[j].conversation_id # conversation_id[1]

\* the step ends session s's chat turn with a model call that raised
ModelCallFailed(s) ==
    /\ pc[s] = "gemini"
    /\ pc'[s] # "gemini"
    /\ out'.llm_calls = 1
    /\ out'.response = <<>>

\* C12: when the chat model call of a turn fails, the buffer and the message
\* table stay as the user turn left them (no assistant message), the failure
\* is shown, and the session is idle, logged in and on the same
\* conversation_id, so that the next turn can be posted.
C12_ModelFailureKeepsUserTurn ==
    [][\A s \in Sessions :
         ModelCallFailed(s)
         => /\ messages'[s] = messages[s]
            /\ messages[s][Len(messages[s])].role = "user"
            /\ l5' = l5
            /\ "An error occurred with the Gemini API" \in out'.errors
            /\ conversation_id'[s] = conversation_id[s]
            /\ user_session'[s] = user_session[s] /\ encryption_key'[s] = encryption_key[s]
            /\ pc'[s] = "idle"]_vars

\* a failed model call left the stored user turn as the last message of the conversation
C12_Witness ==
    /\ out.handler = "chat_input" /\ out.llm_calls = 1 /\ out.response = <<>>
    /\ \E s \in Sessions :
         /\ pc[s] = "idle" /\ LoggedIn(s)
         /\ messages[s] # <<>>
         /\ messages[s] = load_messages_for_conversation(l5, encryption_key[s],
                                                         conversation_id[s], TRUE)
         /\ messages[s][Len(messages[s])].role = "user"

FinalizedRecords(table) == {j \in 1..Len(table) : table[j].status = "finalized"}

\* the step is a New Chat or the selection of a conversation
Switch == out'.handler \in {"New Chat", "select"}

\* C13: the set of finalized records changes only in a step that is a New
\* Chat or a selection: never in a user or assistant turn, a failed model
\* call, a login or a logout.
C13_NoCrystallizationByTurn ==
    [][FinalizedRecords(l4') # FinalizedRecords(l4) => Switch]_vars

\* a session posted a whole turn and logged out, and no record was written
C13_Witness ==
    /\ out.handler = "Logout"
    /\ \E i, j \in 1..Len(l5) : l5[i].role = "user" /\ l5[j].role = "assistant"
    /\ FinalizedRecords(l4) = {}

HasFence(text) == \E k \in 1..Len(text) : text[k] = Ch(Backquote)

\* a fenced response without its fence lines: the JSON document alone
RECURSIVE Unwrapped(_)
Unwrapped(text) ==
    IF text = <<>> THEN <<>>
    ELSE IF DOMAIN Head(text) = {"json"} THEN <<Head(text)>> \o Unwrapped(Tail(text))
    ELSE Unwrapped(Tail(text))

\* the last step was finalize_summary's model call and it got a response
Answered(o) == o.handler = "finalize_summary" /\ o.llm_calls = 1 /\ o.response # <<>>

\* the last step stored a finalized record
Crystallized(o) == "Knowledge crystallized!" \in o.toasts

\* C14 (first half): a fenced response is parsed to the object of the
\* unwrapped response, and that object is what the run stores.
FencedParsesAsUnwrapped ==
    (Answered(out) /\ HasFence(out.response))
    => /\ summary_obj(out.response) = json_loads(Unwrapped(out.response))
       /\ Crystallized(out)
          => l4[Len(l4)].summary_data.token
                = encode(json_dumps(json_loads(Unwrapped(out.response))))

\* C14 (second half): of a response without a fence, the text handed to
\* json.loads is the response itself, but for surrounding whitespace.
UnfencedUnaltered ==
    (Answered(out) /\ ~HasFence(out.response))
    => summary_text(out.response) = strip(out.response)

\* C14: a valid object wrapped in code-fence markers, with or without a
\* language tag, is parsed and stored as the unwrapped object would be, and
\* the stripping leaves a response without a fence as it is.
C14_FenceStripping == FencedParsesAsUnwrapped /\ UnfencedUnaltered

\* the key that a session of the user holds
KeyOf(uid) == derive_key(Password[uid], uid)

\* the stored value is encrypt_message's output for some text under the key
SealedWith(stored, key) ==
    \E text \in {decode(stored.token)} : stored = encrypt_message(text, key)

\* C15: the content of every row of the message table and the summary_data
\* of every row of the record table is the output of encrypt_message under
\* the key of the session that wrote the row.
C15_EncryptedAtRest ==
    /\ \A j \in 1..Len(l5) : SealedWith(l5[j].content, KeyOf(l5[j].user_id))
    /\ \A j \in 1..Len(l4) : SealedWith(l4[j].summary_data, KeyOf(l4[j].user_id))

\* a message, an interim record and a finalized record are stored, from two users
C15_Witness ==
    /\ l5 # <<>>
    /\ \E i, j \in 1..Len(l4) : l4[i].status = "interim" /\ l4[j].status = "finalized"
    /\ \E i \in 1..Len(l5), j \in 1..Len(l4) : l5[i].user_id # l4[j].user_id

\* Message Store load for the session: all stored turns, as the session's key shows them
Load(s) == load_messages_for_conversation(l5, encryption_key[s], conversation_id[s], TRUE)

\* no row of either table carries the conversation id
Unused(cid) ==
    /\ \A j \in 1..Len(l5) : l5[j].conversation_id # cid
    /\ \A j \in 1..Len(l4) : l4[j].conversation_id # cid

\* C16: a selection leaves the session on one of the user's conversations
\* with a buffer equal to the stored turns of that conversation, in
\* created_at order; a New Chat leaves it with an empty buffer on a
\* conversation id that no stored row carries.
C16_SwitchPostconditions ==
    [][\A s \in Sessions :
         /\ SelectConversation(s)
            => /\ conversation_id'[s] \in load_conversations(l5, user_session[s])
               /\ messages'[s] = Load(s)'
         /\ NewChat(s)
            => /\ messages'[s] = <<>>
               /\ conversation_id'[s] # conversation_id[s]
               /\ Unused(conversation_id[s]')]_vars

SaveFailed(o) == "Failed to save message" \in o.errors

\* session s appended one message to its buffer in this step
Appended(s) ==
    /\ Len(messages'[s]) = Len(messages[s]) + 1
    /\ SubSeq(messages'[s], 1, Len(messages[s])) = messages[s]

\* the step stored the message that session s appended to its buffer in this step
SavedNewMessage(s) ==
    /\ Appended(s)
    /\ LET msg == messages'[s][Len(messages'[s])]
       IN  l5' = Append(l5, MessageRow(conversation_id[s], msg.role, msg.content,
                                       user_session[s], encryption_key[s]))

\* C17: a step whose save_message fails shows the failure, writes nothing to
\* the message table, and leaves the session logged in on its conversation
\* with its buffer, the turn's message included; and the table only ever
\* gains the message a session is just appending to its buffer, so a failed
\* append is not made again later.
C17_AppendFailureIsNonFatal ==
    [][/\ SaveFailed(out')
          => /\ l5' = l5
             /\ conversation_id' = conversation_id
             /\ user_session' = user_session /\ encryption_key' = encryption_key
             /\ \E s \in Sessions : Appended(s) /\ pc'[s] \in {"gemini", "idle"}
       /\ l5' # l5 => \E s \in Sessions : SavedNewMessage(s)]_vars

\* after a failed save the buffer holds a message that the table does not
C17_Witness ==
    /\ SaveFailed(out)
    /\ \E s \in Sessions : Len(messages[s]) = 2 /\ Len(Load(s)) = 1

\* the texts that the sessions hold in their buffers
BufferedTexts ==
    UNION {{messages[s][i].content : i \in 1..Len(messages[s])} : s \in Sessions}

OwnConversations(uid) ==
    {l4[j].conversation_id : j \in {k \in 1..Len(l4) : l4[k].user_id = uid}}

\* the most recent record that the user owns in the conversation
OwnNewest(uid, cid) ==
    CHOOSE j \in 1..Len(l4) :
        /\ l4[j].user_id = uid /\ l4[j].conversation_id = cid
        /\ \A k \in 1..Len(l4) :
              (l4[k].user_id = uid /\ l4[k].conversation_id = cid) => k <= j

\* the why_summary of record j as the key shows it, or the placeholder
Title(j, key) ==
    IF l4[j].summary_data.key = key
    THEN json_loads(decode(l4[j].summary_data.token)).items.why_summary
    ELSE CannotDecryptSummary

C20_BufferAgreesWithStore ==
    \A s \in Sessions : LoggedIn(s) => messages[s] = Load(s)

\* the rows of a table that belong to conversation cid agree on user_id
OneOwner(table, cid) ==
    \A i, j \in 1..Len(table) :
        (table[i].conversation_id = cid /\ table[j].conversation_id = cid)
        => table[i].user_id = table[j].user_id

\* C21: after any sequence of login, logout and turns by any users in one
\* browser session, the messages that share a conversation_id carry one
\* owner id, and so do the summary records that share a conversation_id: a
\* user who logs in after another user's logout never appends to the
\* previous user's conversation.
C21_SingleOwnerPerConversation ==
    \A cid \in 1..next_uuid : OneOwner(l5, cid) /\ OneOwner(l4, cid)

====
